---- MODULE Spec2Model ----
(***************************************************************************)
(* A model of three parts of the library:                                  *)
(*   - key/thing.rs      the key codec of a record address (Thing),        *)
(*   - api/opt/resource.rs  the Resource and Range conversions,            *)
(*   - ctx/canceller.rs  the cancellation handle on a shared flag.         *)
(* Each part has its own specification (SpecKey, SpecResource,             *)
(* SpecCancel); the variables of the other parts stay at their initial     *)
(* value.                                                                  *)
(***************************************************************************)
EXTENDS Integers, Sequences, FiniteSets, TLC

VARIABLES
    \* key codec
    thing,      \* the Thing built by Thing::new, or None
    enc,        \* the bytes Thing::encode produced for thing, or None
    other,      \* a second Thing, compared with thing, or None
    encOther,   \* its encoding, or None
    input,      \* the bytes handed to the decoder, or None
    result,     \* the outcome of the last codec operation
    pc,         \* the step the codec run is at
    \* resource model
    source,     \* the input of the last conversion into a Resource
    resource,   \* the outcome of that conversion, or None
    rangeSrc,   \* the input of the last conversion into a Range
    range,      \* the Range it gave, or None
    value,      \* the outcome of with_range, or None
    \* cancellation
    cancelled,  \* the shared AtomicBool
    handles,    \* the Canceller handles built on it
    cancels,    \* per handle, the cancel() calls that completed
    observed    \* per reader, its last load of the flag

keyVars == <<thing, enc, other, encOther, input, result, pc>>
resVars == <<source, resource, rangeSrc, range, value>>
canVars == <<cancelled, handles, cancels, observed>>
vars == <<keyVars, resVars, canVars>>

None == [kind |-> "None"]
Ok(x) == [kind |-> "Ok", val |-> x]
Err(e) == [kind |-> "Err", val |-> e]
Panic == [kind |-> "Panic"]

\* Result::unwrap: the value of an Ok, a panic on an Err.
Unwrap(r) == IF r.kind = "Ok" THEN r ELSE Panic

Min(S) == CHOOSE x \in S : \A y \in S : x <= y

(***************************************************************************)
(* Key codec (key/thing.rs)                                                *)
(***************************************************************************)

\* Bounds of the codec model: the longest field, in bytes.
MaxFieldLen == 2

\* The bytes a field is made of: NUL and the letter a (strings are UTF-8,
\* and U+0000 is a character a Rust String may hold).
Alphabet == {0, 97}

\* The bytes a corrupted marker is changed to.
FlipBytes == {0, 43}

\* The marker bytes Thing::new sets.
Slash == 47
Star == 42

FieldStrings == UNION {[1..k -> Alphabet] : k \in 1..MaxFieldLen}

FieldNames == {"ns", "db", "tb", "id"}

\* Thing::new: the four fields under the fixed markers. The identifier is a
\* String, as the parameter of Thing::new is. The marker fields __, _a, _b,
\* _c, _d are named m0, ma, mb, mc, md.
ThingNew(ns, db, tb, id) ==
    [m0 |-> Slash, ma |-> Star, ns |-> ns, mb |-> Star, db |-> db,
     mc |-> Star, tb |-> tb, md |-> Star, id |-> id]

\* storekey's serialize_str: the bytes of the string, then a NUL terminator.
\* The bytes are written as they are: a NUL inside the string is not escaped.
SerializeStr(s) == s \o <<0>>

\* storekey's serialize_u8: the byte.
SerializeU8(b) == <<b>>

\* serialize(self) of the derived Serialize: the fields in declaration order.
Serialize(t) ==
    SerializeU8(t.m0) \o SerializeU8(t.ma) \o SerializeStr(t.ns)
    \o SerializeU8(t.mb) \o SerializeStr(t.db)
    \o SerializeU8(t.mc) \o SerializeStr(t.tb)
    \o SerializeU8(t.md) \o SerializeStr(t.id)

\* Thing::encode: Ok(serialize(self)?); serialize has no failure on a Thing.
encode(t) == Ok(Serialize(t))

\* storekey's deserialize_u8 at position p: any byte, an error at the end.
ReadU8(v, p) ==
    IF p <= Len(v) THEN [ok |-> TRUE, val |-> v[p], next |-> p + 1]
    ELSE [ok |-> FALSE, val |-> 0, next |-> p]

\* storekey's deserialize_str at position p: the bytes up to the next NUL,
\* an error when there is none. (Its UTF-8 check never fails here: every
\* byte of the model is ASCII.)
ReadStr(v, p) ==
    LET ends == {i \in p..Len(v) : v[i] = 0}
    IN IF ends = {} THEN [ok |-> FALSE, val |-> <<>>, next |-> p]
       ELSE [ok |-> TRUE, val |-> SubSeq(v, p, Min(ends) - 1),
             next |-> Min(ends) + 1]

\* deserialize(v) of the derived Deserialize: the fields in declaration
\* order; the marker fields are plain u8 and take any byte; bytes left after
\* the last field are not looked at.
Deserialize(v) ==
    LET r0 == ReadU8(v, 1)
        ra == ReadU8(v, r0.next)
        ns == ReadStr(v, ra.next)
        rb == ReadU8(v, ns.next)
        db == ReadStr(v, rb.next)
        rc == ReadU8(v, db.next)
        tb == ReadStr(v, rc.next)
        rd == ReadU8(v, tb.next)
        id == ReadStr(v, rd.next)
    IN IF r0.ok /\ ra.ok /\ ns.ok /\ rb.ok /\ db.ok /\ rc.ok /\ tb.ok
          /\ rd.ok /\ id.ok
       THEN Ok([m0 |-> r0.val, ma |-> ra.val, ns |-> ns.val, mb |-> rb.val,
                db |-> db.val, mc |-> rc.val, tb |-> tb.val, md |-> rd.val,
                id |-> id.val])
       ELSE Err("Decode")

\* Thing::decode: Ok(deserialize(v)?).
decode(v) == Deserialize(v)

\* Ordering of two bytes, and of two byte strings (slice and String order:
\* lexicographic, a proper prefix first): -1, 0 or 1.
CmpByte(a, b) == IF a < b THEN -1 ELSE IF a > b THEN 1 ELSE 0

CmpBytes(a, b) ==
    LET diff == {i \in 1..Len(a) : i <= Len(b) /\ a[i] # b[i]}
    IN IF \E i \in diff : TRUE
       THEN CmpByte(a[Min(diff)], b[Min(diff)])
       ELSE CmpByte(Len(a), Len(b))

\* The derived PartialOrd of Thing: the fields in declaration order.
ThingCmp(t, u) ==
    LET cs == <<CmpByte(t.m0, u.m0), CmpByte(t.ma, u.ma), CmpBytes(t.ns, u.ns),
                CmpByte(t.mb, u.mb), CmpBytes(t.db, u.db),
                CmpByte(t.mc, u.mc), CmpBytes(t.tb, u.tb),
                CmpByte(t.md, u.md), CmpBytes(t.id, u.id)>>
        nz == {i \in 1..Len(cs) : cs[i] # 0}
    IN IF nz = {} THEN 0 ELSE cs[Min(nz)]

\* The positions of the five marker bytes in the encoding of t.
MarkerPositions(t) ==
    {1, 2,
     3 + Len(t.ns) + 1,
     3 + Len(t.ns) + 1 + Len(t.db) + 2,
     3 + Len(t.ns) + 1 + Len(t.db) + 2 + Len(t.tb) + 2}

\* The byte strings the decoder is given for an encoding e of t: e itself,
\* its proper prefixes, e with one marker byte changed, e with a byte added.
Truncations(e) == {SubSeq(e, 1, n) : n \in 0..(Len(e) - 1)}

MarkerFlips(t, e) ==
    {[e EXCEPT ![p] = b] : p \in MarkerPositions(t), b \in FlipBytes}
    \ {e}

Extensions(e) == {e \o <<b>> : b \in Alphabet}

DecodeInputs(t, e) ==
    {e} \cup Truncations(e) \cup MarkerFlips(t, e) \cup Extensions(e)

\* The decoder's inputs in the current state.
Inputs == IF pc = "encoded" THEN DecodeInputs(thing, enc) ELSE {}

\* No Thing built yet; the other parts idle.
KeyInit ==
    /\ thing = None /\ enc = None /\ other = None /\ encOther = None
    /\ input = None /\ result = None /\ pc = "start"
    /\ source = None /\ resource = None /\ rangeSrc = None /\ range = None
    /\ value = None
    /\ cancelled = FALSE /\ handles = {} /\ cancels = <<>> /\ observed = <<>>

\* Thing::new(ns, db, tb, id)
New(ns, db, tb, id) ==
    /\ pc = "start"
    /\ thing' = ThingNew(ns, db, tb, id)
    /\ pc' = "new"
    /\ UNCHANGED <<enc, other, encOther, input, result, resVars, canVars>>

\* Thing::encode(&thing)
Encode ==
    /\ pc = "new"
    /\ result' = encode(thing)
    /\ enc' = IF result'.kind = "Ok" THEN result'.val ELSE None
    /\ pc' = "encoded"
    /\ UNCHANGED <<thing, other, encOther, input, resVars, canVars>>

\* Vec::<u8>::from(thing): val.encode().unwrap()
IntoVec ==
    /\ pc = "new"
    /\ result' = Unwrap(encode(thing))
    /\ enc' = IF result'.kind = "Ok" THEN result'.val ELSE None
    /\ pc' = "encoded"
    /\ UNCHANGED <<thing, other, encOther, input, resVars, canVars>>

\* Thing::decode(v)
Decode(v) ==
    /\ pc = "encoded"
    /\ v \in DecodeInputs(thing, enc)
    /\ input' = v
    /\ result' = decode(v)
    /\ pc' = "decoded"
    /\ UNCHANGED <<thing, enc, other, encOther, resVars, canVars>>

\* Thing::from(v) for Vec<u8> and &Vec<u8>: Thing::decode(&val).unwrap()
FromVec(v) ==
    /\ pc = "encoded"
    /\ v \in DecodeInputs(thing, enc)
    /\ input' = v
    /\ result' = Unwrap(decode(v))
    /\ pc' = "decoded"
    /\ UNCHANGED <<thing, enc, other, encOther, resVars, canVars>>

\* A second Thing, thing with one field replaced, is encoded as well.
Compare(f, s) ==
    /\ pc = "encoded"
    /\ other' = [thing EXCEPT ![f] = s]
    /\ encOther' = encode(other').val
    /\ pc' = "compared"
    /\ UNCHANGED <<thing, enc, input, result, resVars, canVars>>

KeyNext ==
    \/ \E ns, db, tb, id \in FieldStrings : New(ns, db, tb, id)
    \/ Encode
    \/ IntoVec
    \/ \E v \in Inputs : Decode(v)
    \/ \E v \in Inputs : FromVec(v)
    \/ \E f \in FieldNames, s \in FieldStrings : Compare(f, s)

SpecKey == KeyInit /\ [][KeyNext]_vars

(***************************************************************************)
(* Resource model (api/opt/resource.rs)                                    *)
(***************************************************************************)

\* Bounds of the resource model: the longest input string, the largest
\* number used as a record identifier.
MaxStrLen == 3
MaxId == 1

\* The characters of an input string.
Chars == {"a", "b", ":"}

\* The characters of a table name or identifier in a record address.
IdentChars == {"a", "b"}

Strings == UNION {[1..k -> Chars] : k \in 0..MaxStrLen}

IdValues == 0..MaxId

\* The three string types with an IntoResource and a From impl.
StringForms == {"&str", "&String", "String"}

\* sql::Id from a number (Into<Id>): the Number variant.
IntoId(n) == [kind |-> "Number", val |-> n]

\* sql::Table from a string: the tuple struct around it.
Table(name) == [kind |-> "Table", val |-> name]

\* sql::Thing from a (table, id) pair.
SqlThing(tb, id) == [tb |-> tb, id |-> id]

\* The variants of Resource.
ResTable(t) == [kind |-> "Table", val |-> t.val]
ResRecordId(t) == [kind |-> "RecordId", val |-> t]
ResObject(o) == [kind |-> "Object", val |-> o]
ResArray(a) == [kind |-> "Array", val |-> a]
ResEdges(e) == [kind |-> "Edges", val |-> e]

\* std::ops::Bound
Unbounded == [kind |-> "Unbounded"]
Included(x) == [kind |-> "Included", val |-> x]
Excluded(x) == [kind |-> "Excluded", val |-> x]

RawBounds == {Unbounded} \cup {Included(n) : n \in IdValues}
             \cup {Excluded(n) : n \in IdValues}

\* The literal values and record addresses used as inputs.
Objects == {"{}", "{x: 1}"}
Arrays == {"[]", "[1]"}
Things == {SqlThing(<<"a">>, IntoId(n)) : n \in IdValues}
EdgeSets == {[from |-> t, dir |-> "out"] : t \in Things}
TableNames == {<<"a">>, <<"b">>}

\* sql::thing: the parser of the record-address syntax table:id. A string
\* parses when it is a table name, one colon and an identifier.
ParseThing(s) ==
    LET cs == {i \in 1..Len(s) : s[i] = ":"}
    IN IF /\ Cardinality(cs) = 1
          /\ Min(cs) > 1 /\ Min(cs) < Len(s)
          /\ \A i \in 1..Len(s) : i \notin cs => s[i] \in IdentChars
       THEN Ok(SqlThing(SubSeq(s, 1, Min(cs) - 1),
                        [kind |-> "String",
                         val |-> SubSeq(s, Min(cs) + 1, Len(s))]))
       ELSE Err("Parse")

\* str::contains(':')
Contains(s, c) == \E i \in 1..Len(s) : s[i] = c

\* A split at the last c, not the first: split_once changed to rsplit_once.
SplitOnceLast(s, c) ==
    LET p == CHOOSE i \in 1..Len(s) :
                 s[i] = c /\ \A j \in 1..Len(s) : s[j] = c => j <= i
    IN <<SubSeq(s, 1, p - 1), SubSeq(s, p + 1, Len(s))>>

\* str::split_once(c): the text before the first c and the text after it.
SplitOnce(s, c) ==
    LET p == Min({i \in 1..Len(s) : s[i] = c})
    IN <<SubSeq(s, 1, p - 1), SubSeq(s, p + 1, Len(s))>>

\* blacklist_colon
blacklist_colon(s) ==
    IF Contains(s, ":")
    THEN Err([kind |-> "TableColonId", table |-> SplitOnce(s, ":")[1],
              id |-> SplitOnce(s, ":")[2]])
    ELSE Ok("()")

\* into_resource changed to try the record-address syntax first, as
\* Resource::from does.
IntoResourceParsesFirst(s) ==
    IF ParseThing(s).kind = "Ok" THEN Ok(ResRecordId(ParseThing(s).val))
    ELSE IF blacklist_colon(s).kind = "Err" THEN blacklist_colon(s)
    ELSE Ok(ResTable(Table(s)))

\* IntoResource for &str, &String and String: blacklist_colon(s)?, then
\* Ok(Resource::Table(Table(s))).
IntoResourceString(s) ==
    IF blacklist_colon(s).kind = "Err" THEN blacklist_colon(s)
    ELSE Ok(ResTable(Table(s)))

\* From<&str>, From<&String> and From<String> for Resource.
FromString(s) ==
    IF ParseThing(s).kind = "Ok" THEN ResRecordId(ParseThing(s).val)
    ELSE ResTable(Table(s))

\* A bound converted with Into<Id>.
BoundInto(b) ==
    CASE b.kind = "Included" -> Included(IntoId(b.val))
      [] b.kind = "Excluded" -> Excluded(IntoId(b.val))
      [] b.kind = "Unbounded" -> Unbounded

\* The From impls of Range<Id>.
RangeFromPair(b1, b2) == [start |-> BoundInto(b1), end |-> BoundInto(b2)]

RangeFromRange(a, b) ==
    [start |-> Included(IntoId(a)), end |-> Excluded(IntoId(b))]

RangeFromRangeInclusive(a, b) ==
    [start |-> Included(IntoId(a)), end |-> Included(IntoId(b))]

RangeFromRangeFrom(a) == [start |-> Included(IntoId(a)), end |-> Unbounded]

\* From<RangeTo> changed to include its end, as From<RangeToInclusive> does.
RangeFromRangeTo_Included(b) ==
    [start |-> Unbounded, end |-> Included(IntoId(b))]

RangeFromRangeTo(b) == [start |-> Unbounded, end |-> Excluded(IntoId(b))]

RangeFromRangeToInclusive(b) ==
    [start |-> Unbounded, end |-> Included(IntoId(b))]

RangeFromRangeFull == [start |-> Unbounded, end |-> Unbounded]

\* with_range changed to swap the bounds of the range.
with_range_swapped(r, rg) ==
    CASE r.kind = "Table" ->
            Ok([kind |-> "Range",
                val |-> [tb |-> r.val, beg |-> rg.end, end |-> rg.start]])
      [] r.kind = "RecordId" -> Err([kind |-> "RangeOnRecordId", val |-> r.val])
      [] r.kind = "Object" -> Err([kind |-> "RangeOnObject", val |-> r.val])
      [] r.kind = "Array" -> Err([kind |-> "RangeOnArray", val |-> r.val])
      [] r.kind = "Edges" -> Err([kind |-> "RangeOnEdges", val |-> r.val])

\* Resource::with_range

with_range(r, rg) ==
    CASE r.kind = "Table" ->
            Ok([kind |-> "Range",
                val |-> [tb |-> r.val, beg |-> rg.start, end |-> rg.end]])
      [] r.kind = "RecordId" -> Err([kind |-> "RangeOnRecordId", val |-> r.val])
      [] r.kind = "Object" -> Err([kind |-> "RangeOnObject", val |-> r.val])
      [] r.kind = "Array" -> Err([kind |-> "RangeOnArray", val |-> r.val])
      [] r.kind = "Edges" -> Err([kind |-> "RangeOnEdges", val |-> r.val])

\* No conversion made yet; the other parts idle.
ResInit ==
    /\ source = None /\ resource = None /\ rangeSrc = None /\ range = None
    /\ value = None
    /\ thing = None /\ enc = None /\ other = None /\ encOther = None
    /\ input = None /\ result = None /\ pc = "start"
    /\ cancelled = FALSE /\ handles = {} /\ cancels = <<>> /\ observed = <<>>

\* s.into_resource() for s: &str, &String or String
IntoResourceStr(f, s) ==
    /\ resource = None
    /\ source' = [op |-> "into_resource", shape |-> f, val |-> s]
    /\ resource' = IntoResourceString(s)
    /\ UNCHANGED <<rangeSrc, range, value, keyVars, canVars>>

\* Resource::from(s) for s: &str, &String or String
FromStr(f, s) ==
    /\ resource = None
    /\ source' = [op |-> "from", shape |-> f, val |-> s]
    /\ resource' = Ok(FromString(s))
    /\ UNCHANGED <<rangeSrc, range, value, keyVars, canVars>>

\* table.into_resource()
IntoResourceTable(n) ==
    /\ resource = None
    /\ source' = [op |-> "into_resource", shape |-> "Table", val |-> Table(n)]
    /\ resource' = Ok(ResTable(Table(n)))
    /\ UNCHANGED <<rangeSrc, range, value, keyVars, canVars>>

\* thing.into_resource() for a Thing or a &Thing
IntoResourceThing(f, t) ==
    /\ resource = None
    /\ source' = [op |-> "into_resource", shape |-> f, val |-> t]
    /\ resource' = Ok(ResRecordId(t))
    /\ UNCHANGED <<rangeSrc, range, value, keyVars, canVars>>

\* (table, id).into_resource()
IntoResourcePair(n, i) ==
    /\ resource = None
    /\ source' = [op |-> "into_resource", shape |-> "(T, I)", val |-> <<n, i>>]
    /\ resource' = Ok(ResRecordId(SqlThing(n, IntoId(i))))
    /\ UNCHANGED <<rangeSrc, range, value, keyVars, canVars>>

\* object.into_resource()
IntoResourceObject(o) ==
    /\ resource = None
    /\ source' = [op |-> "into_resource", shape |-> "Object", val |-> o]
    /\ resource' = Ok(ResObject(o))
    /\ UNCHANGED <<rangeSrc, range, value, keyVars, canVars>>

\* array.into_resource()
IntoResourceArray(a) ==
    /\ resource = None
    /\ source' = [op |-> "into_resource", shape |-> "Array", val |-> a]
    /\ resource' = Ok(ResArray(a))
    /\ UNCHANGED <<rangeSrc, range, value, keyVars, canVars>>

\* edges.into_resource()
IntoResourceEdges(e) ==
    /\ resource = None
    /\ source' = [op |-> "into_resource", shape |-> "Edges", val |-> e]
    /\ resource' = Ok(ResEdges(e))
    /\ UNCHANGED <<rangeSrc, range, value, keyVars, canVars>>

\* Range::from((b1, b2))
FromBoundPair(b1, b2) ==
    /\ range = None
    /\ rangeSrc' = [shape |-> "(Bound, Bound)", a |-> b1, b |-> b2]
    /\ range' = RangeFromPair(b1, b2)
    /\ UNCHANGED <<source, resource, value, keyVars, canVars>>

\* Range::from(a..b)
FromRange(a, b) ==
    /\ range = None
    /\ rangeSrc' = [shape |-> "Range", a |-> a, b |-> b]
    /\ range' = RangeFromRange(a, b)
    /\ UNCHANGED <<source, resource, value, keyVars, canVars>>

\* Range::from(a..=b)
FromRangeInclusive(a, b) ==
    /\ range = None
    /\ rangeSrc' = [shape |-> "RangeInclusive", a |-> a, b |-> b]
    /\ range' = RangeFromRangeInclusive(a, b)
    /\ UNCHANGED <<source, resource, value, keyVars, canVars>>

\* Range::from(a..)
FromRangeFrom(a) ==
    /\ range = None
    /\ rangeSrc' = [shape |-> "RangeFrom", a |-> a, b |-> None]
    /\ range' = RangeFromRangeFrom(a)
    /\ UNCHANGED <<source, resource, value, keyVars, canVars>>

\* Range::from(..b)
FromRangeTo(b) ==
    /\ range = None
    /\ rangeSrc' = [shape |-> "RangeTo", a |-> None, b |-> b]
    /\ range' = RangeFromRangeTo(b)
    /\ UNCHANGED <<source, resource, value, keyVars, canVars>>

\* Range::from(..=b)
FromRangeToInclusive(b) ==
    /\ range = None
    /\ rangeSrc' = [shape |-> "RangeToInclusive", a |-> None, b |-> b]
    /\ range' = RangeFromRangeToInclusive(b)
    /\ UNCHANGED <<source, resource, value, keyVars, canVars>>

\* Range::from(..)
FromRangeFull ==
    /\ range = None
    /\ rangeSrc' = [shape |-> "RangeFull", a |-> None, b |-> None]
    /\ range' = RangeFromRangeFull
    /\ UNCHANGED <<source, resource, value, keyVars, canVars>>

\* resource.with_range(range)
WithRange ==
    /\ resource.kind = "Ok" /\ range # None /\ value = None
    /\ value' = with_range(resource.val, range)
    /\ UNCHANGED <<source, resource, rangeSrc, range, keyVars, canVars>>

ResNext ==
    \/ \E f \in StringForms, s \in Strings : IntoResourceStr(f, s)
    \/ \E f \in StringForms, s \in Strings : FromStr(f, s)
    \/ \E n \in TableNames : IntoResourceTable(n)
    \/ \E f \in {"Thing", "&Thing"}, t \in Things : IntoResourceThing(f, t)
    \/ \E n \in TableNames, i \in IdValues : IntoResourcePair(n, i)
    \/ \E o \in Objects : IntoResourceObject(o)
    \/ \E a \in Arrays : IntoResourceArray(a)
    \/ \E e \in EdgeSets : IntoResourceEdges(e)
    \/ \E b1, b2 \in RawBounds : FromBoundPair(b1, b2)
    \/ \E a, b \in IdValues : FromRange(a, b)
    \/ \E a, b \in IdValues : FromRangeInclusive(a, b)
    \/ \E a \in IdValues : FromRangeFrom(a)
    \/ \E b \in IdValues : FromRangeTo(b)
    \/ \E b \in IdValues : FromRangeToInclusive(b)
    \/ FromRangeFull
    \/ WithRange

SpecResource == ResInit /\ [][ResNext]_vars

(***************************************************************************)
(* Cancellation (ctx/canceller.rs)                                         *)
(***************************************************************************)

\* Bounds of the cancellation model: the handles built on the shared flag,
\* the readers of the flag, the cancel() calls made through one handle.
NumHandles == 2
NumReaders == 2
MaxCancels == 2

Handles == 1..NumHandles
Readers == 1..NumReaders

\* The store changed to flip the flag (a fetch_xor), and to clear it.
StoreToggled(old) == ~old

StoreFalse(old) == FALSE

\* self.cancelled.store(true, Ordering::Relaxed): the value the flag holds
\* after the store, given the value before it.
Store(old) == TRUE

\* cancelled.load(Ordering::Relaxed) by a holder of the shared reference.
\* The loads and stores of one atomic object are totally ordered (its
\* modification order), so a load returns the value of the last store
\* before it in that order.
Load(flag) == flag

\* The cancel() calls that completed, over all handles.
Completed == {h \in Handles : cancels[h] > 0}

\* The shared flag as its owner made it, no handle yet; the other parts idle.
CanInit ==
    /\ cancelled \in BOOLEAN
    /\ handles = {}
    /\ cancels = [h \in Handles |-> 0]
    /\ observed = [r \in Readers |-> None]
    /\ thing = None /\ enc = None /\ other = None /\ encOther = None
    /\ input = None /\ result = None /\ pc = "start"
    /\ source = None /\ resource = None /\ rangeSrc = None /\ range = None
    /\ value = None

\* Canceller::new(cancelled): one more handle on the shared flag.
NewCanceller(h) ==
    /\ h \notin handles
    /\ handles' = handles \cup {h}
    /\ UNCHANGED <<cancelled, cancels, observed, keyVars, resVars>>

\* handle.cancel()
Cancel(h) ==
    /\ h \in handles
    /\ cancels[h] < MaxCancels
    /\ cancelled' = Store(cancelled)
    /\ cancels' = [cancels EXCEPT ![h] = @ + 1]
    /\ UNCHANGED <<handles, observed, keyVars, resVars>>

\* A reader loads the flag through the shared reference.
Read(r) ==
    /\ observed' = [observed EXCEPT
                      ![r] = [kind |-> "Read", val |-> Load(cancelled),
                              after |-> Completed # {}]]
    /\ UNCHANGED <<cancelled, handles, cancels, keyVars, resVars>>

CanNext ==
    \/ \E h \in Handles : NewCanceller(h)
    \/ \E h \in Handles : Cancel(h)
    \/ \E r \in Readers : Read(r)

SpecCancel == CanInit /\ [][CanNext]_vars

(***************************************************************************)
(* The properties                                                          *)
(***************************************************************************)

\* No field of t holds a NUL byte.
NulFree(t) ==
    \A f \in FieldNames : \A i \in 1..Len(t[f]) : t[f][i] # 0

\* C1: decoding the encoding of a Thing succeeds and gives back that Thing,
\* marker fields included.
C1_RoundTrip ==
    (pc = "decoded" /\ input = enc) => result = Ok(thing)

\* C2: a Thing that is smaller in tuple order has the smaller encoding in
\* byte-lexicographic order.
C2_OrderPreserved ==
    (pc = "compared" /\ ThingCmp(thing, other) = -1)
        => CmpBytes(enc, encOther) = -1

\* C3: the decoder never returns Ok on a truncated encoding, on an encoding
\* with a changed marker byte, or on an encoding followed by more bytes.
\* Stated for the Things whose fields hold no NUL, whose encoding decodes
\* to the Thing it was made from.
C3_DecodeRejects ==
    (pc = "decoded" /\ input # enc /\ NulFree(thing))
        => result.kind # "Ok"

\* C8: no operation ends in a panic: each one returns a value or an error.
C8_NoPanic == result.kind # "Panic"

\* A conversion of a string with into_resource has been made.
StrIntoDone ==
    /\ resource # None
    /\ source.op = "into_resource"
    /\ source.shape \in StringForms

\* A conversion of a string with Resource::from has been made.
StrFromDone ==
    /\ resource # None
    /\ source.op = "from"

\* C4: the flag never goes from true back to false, and a load made after a
\* cancel() has completed returns true, whoever loads and whichever handle
\* cancelled.
C4_Monotonic ==
    [][/\ cancelled => cancelled'
       /\ \A r \in Readers :
            (observed'[r] # None /\ observed'[r].after) => observed'[r].val
      ]_vars

\* C4 witness: two handles have cancelled and both readers have loaded the
\* flag after that.
C4_Witness ==
    /\ Cardinality(Completed) >= 2
    /\ \A r \in Readers : observed[r] # None /\ observed[r].after

\* C5: with_range on a Table gives the scan descriptor of that table with
\* the bounds of the range as they are; on any other variant it fails with
\* the error of that variant, whatever the range.
C5_RangeLegality ==
    value # None =>
        LET r == resource.val
        IN CASE r.kind = "Table" ->
                    /\ value.kind = "Ok"
                    /\ value.val.kind = "Range"
                    /\ value.val.val.tb = r.val
                    /\ value.val.val.beg = range.start
                    /\ value.val.val.end = range.end
             [] r.kind = "RecordId" ->
                    value.kind = "Err" /\ value.val.kind = "RangeOnRecordId"
             [] r.kind = "Object" ->
                    value.kind = "Err" /\ value.val.kind = "RangeOnObject"
             [] r.kind = "Array" ->
                    value.kind = "Err" /\ value.val.kind = "RangeOnArray"
             [] r.kind = "Edges" ->
                    value.kind = "Err" /\ value.val.kind = "RangeOnEdges"

\* C5 witness: a table given a range with an excluded start and an included
\* end, of different identifiers.
C5_Witness ==
    /\ value # None /\ value.kind = "Ok"
    /\ resource.val.kind = "Table"
    /\ range.start.kind = "Excluded" /\ range.end.kind = "Included"
    /\ range.start.val # range.end.val

\* C6 as stated: into_resource of a string first tries the record-address
\* syntax and gives RecordId when the string parses; else TableColonId when
\* the string has a colon; else Table.
C6_ParsesFirst ==
    StrIntoDone =>
        IF ParseThing(source.val).kind = "Ok"
        THEN resource = Ok(ResRecordId(ParseThing(source.val).val))
        ELSE IF Contains(source.val, ":")
        THEN resource.kind = "Err" /\ resource.val.kind = "TableColonId"
        ELSE resource = Ok(ResTable(Table(source.val)))

\* C6 amended: into_resource of a string makes no record-address test: a
\* string with a colon fails with TableColonId, also when it is a valid
\* address, and a string without one gives Table; the record-address test
\* is Resource::from's, which gives RecordId when the string parses and
\* Table with the whole string when it does not, and never fails.
C6_NoParse ==
    /\ StrIntoDone =>
          IF Contains(source.val, ":")
          THEN resource.kind = "Err" /\ resource.val.kind = "TableColonId"
          ELSE resource = Ok(ResTable(Table(source.val)))
    /\ StrFromDone =>
          IF ParseThing(source.val).kind = "Ok"
          THEN resource = Ok(ResRecordId(ParseThing(source.val).val))
          ELSE resource = Ok(ResTable(Table(source.val)))

\* C6 witness: into_resource of a valid record address has failed.
C6_Witness ==
    /\ StrIntoDone
    /\ ParseThing(source.val).kind = "Ok"
    /\ resource.kind = "Err"

\* C7: into_resource of a string fails exactly when the string has a colon,
\* with TableColonId{table, id} where table is the text before the first
\* colon and id all the text after it; without a colon it gives Table with
\* the string.
C7_ColonBlacklist ==
    StrIntoDone =>
        /\ resource.kind = "Err" <=> Contains(source.val, ":")
        /\ resource.kind = "Err" =>
              /\ resource.val.kind = "TableColonId"
              /\ resource.val.table \o <<":">> \o resource.val.id = source.val
              /\ ~Contains(resource.val.table, ":")
        /\ resource.kind # "Err" =>
              resource = Ok(ResTable(Table(source.val)))

\* C7 witness: a string with two colons has been rejected.
C7_Witness ==
    /\ StrIntoDone
    /\ Cardinality({i \in 1..Len(source.val) : source.val[i] = ":"}) >= 2
    /\ resource.kind = "Err"
    /\ Contains(resource.val.id, ":")

\* C9: each range shape converts to the start and end bounds of its kind,
\* with its values converted to identifiers; a pair of bounds keeps the kind
\* and value of each bound.
C9_RangeConversion ==
    range # None =>
        LET a == rangeSrc.a
            b == rangeSrc.b
            Same(x, y) ==
                /\ x.kind = y.kind
                /\ x.kind # "Unbounded" => y.val = IntoId(x.val)
        IN CASE rangeSrc.shape = "Range" ->
                    range = [start |-> Included(IntoId(a)),
                             end |-> Excluded(IntoId(b))]
             [] rangeSrc.shape = "RangeInclusive" ->
                    range = [start |-> Included(IntoId(a)),
                             end |-> Included(IntoId(b))]
             [] rangeSrc.shape = "RangeFrom" ->
                    range = [start |-> Included(IntoId(a)), end |-> Unbounded]
             [] rangeSrc.shape = "RangeTo" ->
                    range = [start |-> Unbounded, end |-> Excluded(IntoId(b))]
             [] rangeSrc.shape = "RangeToInclusive" ->
                    range = [start |-> Unbounded, end |-> Included(IntoId(b))]
             [] rangeSrc.shape = "RangeFull" ->
                    range = [start |-> Unbounded, end |-> Unbounded]
             [] rangeSrc.shape = "(Bound, Bound)" ->
                    Same(a, range.start) /\ Same(b, range.end)

\* C9 witness: ..b has been converted, for the largest identifier.
C9_Witness ==
    /\ range # None
    /\ rangeSrc.shape = "RangeTo"
    /\ rangeSrc.b = MaxId
    /\ range.end.kind = "Excluded"

\* C10: after one or more cancel() calls, through one handle or several,
\* the flag is true, whatever it was before the first.
C10_Idempotent ==
    Completed # {} => cancelled = TRUE

\* C10 witness: one handle has cancelled twice and another one once.
C10_Witness ==
    \E h, k \in Handles : h # k /\ cancels[h] >= 2 /\ cancels[k] >= 1

====
